---- MODULE Spec2Model ----
(***************************************************************************)
(* XAUUSD-SignalAgent: the series normalizer and the period translation    *)
(* (market_data.py), the RSI, the Bollinger bands and the support and      *)
(* resistance level detector (technical_analysis.py), the recommendation   *)
(* builder (signal_generator.py) and the sliders, update_data and the      *)
(* readers of the indicator bundle (app.py, chart_utils.py).               *)
(*                                                                         *)
(* Prices are whole dollars; every comparison of the source that divides   *)
(* is cross-multiplied, so the arithmetic is exact (floating-point         *)
(* rounding is not modelled).                                              *)
(***************************************************************************)
EXTENDS Integers, Sequences, FiniteSets, TLC

VARIABLES
    pc,                 \* which call is pending / has returned
    closes,             \* data['close'] handed to the indicator functions
    window,             \* find_support_resistance(window=...), calculate_rsi(window=...)
    prominence2,        \* find_support_resistance(prominence=...), in half dollars
    support_levels,     \* first element of find_support_resistance's result
    resistance_levels,  \* second element of find_support_resistance's result
    rsi,                \* the series calculate_rsi returns
    feed,               \* what yf.download hands to fetch_xauusd_data
    data,               \* what fetch_xauusd_data returns (or raises)
    api_key,            \* SignalGenerator(api_key=...)
    env_key,            \* os.getenv("OPENAI_API_KEY")
    client,             \* self.client
    market_data,        \* generate_trade_signal's first argument
    analysis_data,      \* generate_trade_signal's second argument
    service,            \* what the text-generation service did with the last request
    requests,           \* requests issued by the last generate_trade_signal call
    signal_data,        \* what generate_trade_signal returned
    raised,             \* the exception that reached the caller of the builder
    num_std,            \* calculate_bollinger_bands(num_std=...)
    bands,              \* the three series calculate_bollinger_bands returns
    config,             \* the sidebar's indicator sliders (app.py)
    tables,             \* the DataFrame objects alive in the session, by identity
    session,            \* st.session_state
    period,             \* fetch_xauusd_data(period=...)
    interval,           \* fetch_xauusd_data(interval=...)
    forwarded           \* the period and interval yf.download is called with

vars == <<pc, closes, window, prominence2, support_levels, resistance_levels, rsi,
          feed, data, api_key, env_key, client, market_data, analysis_data,
          service, requests, signal_data, raised,
          num_std, bands, config, tables, session, period, interval, forwarded>>

fetchVars == <<feed, data>>
signalVars == <<api_key, env_key, client, market_data, analysis_data,
                service, requests, signal_data, raised>>
bollingerVars == <<num_std, bands>>
appVars == <<config, tables, session>>
periodVars == <<period, interval, forwarded>>

None == "None"

----------------------------------------------------------------------------
(* Arithmetic and sequence helpers *)

Abs(n) == IF n < 0 THEN -n ELSE n

SetMin(S) == CHOOSE m \in S : \A k \in S : m <= k

SetMax(S) == CHOOSE m \in S : \A k \in S : k <= m

----------------------------------------------------------------------------
(* scipy.signal.find_peaks(x, distance=, prominence=) as called by         *)
(* find_support_resistance: local maxima, then the distance filter, then   *)
(* the prominence filter.                                                  *)

\* -prices
Negated(x) == [i \in 1..Len(x) |-> -x[i]]

\* variant: a run touching the first or the last sample counts as a peak
IsPlateauWithEdges(x, l, r) ==
    /\ 1 <= l /\ l <= r /\ r <= Len(x)
    /\ \A i \in l..r : x[i] = x[l]
    /\ (l > 1 => x[l - 1] < x[l])
    /\ (r < Len(x) => x[r + 1] < x[l])
    /\ (l > 1 \/ r < Len(x))

\* a flat run l..r strictly above both neighbours; the first and the last
\* sample are never part of one
IsPlateau(x, l, r) ==
    /\ 2 <= l /\ l <= r /\ r <= Len(x) - 1
    /\ \A i \in l..r : x[i] = x[l]
    /\ x[l - 1] < x[l]
    /\ x[r + 1] < x[l]

\* the midpoint (rounded down) of every such run
local_maxima(x) ==
    { (p[1] + p[2]) \div 2 :
        p \in { q \in (1..Len(x)) \X (1..Len(x)) : IsPlateau(x, q[1], q[2]) } }

\* highest peak first; among equal heights the later one first (argsort is
\* stable on the short arrays modelled here, and is read from its end)
Highest(x, cands) ==
    CHOOSE j \in cands : \A k \in cands : x[k] < x[j] \/ (x[k] = x[j] /\ k <= j)

\* peaks closer than `distance` samples to a higher kept peak are dropped
RECURSIVE select_by_peak_distance(_, _, _, _)
select_by_peak_distance(x, cands, distance, kept) ==
    IF cands = {} THEN kept
    ELSE LET j == Highest(x, cands)
         IN  select_by_peak_distance(
                 x, { k \in cands \ {j} : Abs(k - j) >= distance },
                 distance, kept \cup {j})

\* x[p] minus the higher of the two lowest points between p and the next
\* strictly higher sample (or the end of the series) on either side
peak_prominence(x, p) ==
    LET lb == SetMin({ i \in 1..p : \A k \in i..p : x[k] <= x[p] })
        rb == SetMax({ i \in p..Len(x) : \A k \in p..i : x[k] <= x[p] })
        left_min == SetMin({ x[k] : k \in lb..p })
        right_min == SetMin({ x[k] : k \in p..rb })
    IN  x[p] - (IF left_min > right_min THEN left_min ELSE right_min)

\* variant: the first and the last sample may be peaks, and the prominence
\* is measured from the lower of the two bases
find_peaks_with_edges(x, distance, prom2) ==
    LET maxima == { (p[1] + p[2]) \div 2 :
                      p \in { q \in (1..Len(x)) \X (1..Len(x)) :
                                 IsPlateauWithEdges(x, q[1], q[2]) } }
        lowest(p) == SetMin({ x[k] : k \in
                        SetMin({ i \in 1..p : \A k \in i..p : x[k] <= x[p] }) ..
                        SetMax({ i \in p..Len(x) : \A k \in p..i : x[k] <= x[p] }) })
    IN  { p \in select_by_peak_distance(x, maxima, distance, {}) :
            2 * (x[p] - lowest(p)) >= prom2 }

\* the indices find_peaks returns; prominence is given in half dollars
find_peaks(x, distance, prom2) ==
    { p \in select_by_peak_distance(x, local_maxima(x), distance, {}) :
        2 * peak_prominence(x, p) >= prom2 }

----------------------------------------------------------------------------
(* find_support_resistance *)

\* sorted(prices[idx]): the values at the indices, ascending, repeats kept
RECURSIVE sorted(_, _)
sorted(x, idx) ==
    IF idx = {} THEN <<>>
    ELSE LET j == CHOOSE j \in idx :
                     \A k \in idx : x[j] < x[k] \/ (x[j] = x[k] /\ j <= k)
         IN  <<x[j]>> \o sorted(x, idx \ {j})

KeepLast == 5

RelDen == 1000

\* variant: no cut to the last five
keep_all_levels(levels) == levels

\* variant: levels[:5], the five lowest
first_levels(levels) ==
    SubSeq(levels, 1, IF Len(levels) > KeepLast THEN KeepLast ELSE Len(levels))

\* levels[-5:]
last_levels(levels) ==
    SubSeq(levels, IF Len(levels) > KeepLast THEN Len(levels) - KeepLast + 1 ELSE 1,
           Len(levels))

\* variant: a threshold of 0.0001 instead of 0.001
far_from_previous_loose(levels, i) ==
    10 * RelDen * Abs(levels[i] - levels[i - 1]) > levels[i]

\* abs(s - levels[i]) / s > 0.001 for s = levels[i + 1], s > 0
far_from_previous(levels, i) ==
    RelDen * Abs(levels[i] - levels[i - 1]) > levels[i]

\* [s for i, s in enumerate(levels[1:]) if ...], from position i on
RECURSIVE far_levels_from(_, _)
far_levels_from(levels, i) ==
    IF i > Len(levels) THEN <<>>
    ELSE (IF far_from_previous(levels, i) THEN <<levels[i]>> ELSE <<>>)
             \o far_levels_from(levels, i + 1)

\* [levels[0]] + [...], when there is a level at all
remove_close_levels(levels) ==
    IF Len(levels) = 0 THEN <<>>
    ELSE <<levels[1]>> \o far_levels_from(levels, 2)

\* variant: the troughs are read from the negated series
support_candidates_negated(prices, w, prom2) ==
    sorted(Negated(prices), find_peaks(Negated(prices), w, prom2))

\* sorted(prices[support_idx])
support_candidates(prices, w, prom2) ==
    sorted(prices, find_peaks(Negated(prices), w, prom2))

resistance_candidates(prices, w, prom2) ==
    sorted(prices, find_peaks(prices, w, prom2))

find_support_resistance(prices, w, prom2) ==
    [support |-> remove_close_levels(last_levels(support_candidates(prices, w, prom2))),
     resistance |-> remove_close_levels(last_levels(resistance_candidates(prices, w, prom2)))]

----------------------------------------------------------------------------
(* Inputs of the level detector: every short series over three closes, and *)
(* zigzags (trough, peak, trough, ...) long enough for more than five      *)
(* extrema on either side.                                                 *)

MaxLen == 5

MaxPeaks == 6

MaxWindow == 2

CloseValues == {2000, 2001, 2004}

ZigSteps == {-4, 1, 4}

ZigStart == 2010

Channel == 60

Prominences2 == {1, 4}

ShortSeries == UNION { [1..n -> CloseValues] : n \in 0..MaxLen }

RECURSIVE SumTo(_, _)
SumTo(steps, i) == IF i = 0 THEN 0 ELSE steps[i] + SumTo(steps, i - 1)

\* trough, peak, trough, ..., peak, trough, edge: peak i stands at
\* ZigStart + steps[1] + ... + steps[i], each trough Channel below a peak
Zigzag(steps) ==
    [i \in 1..(2 * Len(steps) + 2) |->
        LET k == i \div 2
            level == ZigStart + SumTo(steps, IF k > Len(steps) THEN Len(steps) ELSE k)
        IN  IF i % 2 = 0 THEN level ELSE level - Channel]

ZigzagSeries == { Zigzag(steps) : steps \in [1..MaxPeaks -> ZigSteps] }

InitLevels ==
    /\ pc = "find_support_resistance"
    /\ closes \in ShortSeries \cup ZigzagSeries
    /\ window \in 1..MaxWindow
    /\ prominence2 \in Prominences2
    /\ support_levels = <<>> /\ resistance_levels = <<>>
    /\ rsi = <<>>
    /\ feed = None /\ data = None
    /\ api_key = None /\ env_key = None /\ client = None
    /\ market_data = None /\ analysis_data = None
    /\ service = [kind |-> "none", content |-> <<>>]
    /\ requests = 0 /\ signal_data = <<>> /\ raised = None
    /\ num_std = 0 /\ bands = <<>>
    /\ config = None /\ tables = <<>> /\ session = None
    /\ period = None /\ interval = None /\ forwarded = None

FindSupportResistance ==
    /\ pc = "find_support_resistance"
    /\ LET r == find_support_resistance(closes, window, prominence2)
       IN  /\ support_levels' = r.support
           /\ resistance_levels' = r.resistance
    /\ pc' = "returned"
    /\ UNCHANGED <<closes, window, prominence2, rsi>>
    /\ UNCHANGED fetchVars
    /\ UNCHANGED signalVars
    /\ UNCHANGED <<bollingerVars, appVars, periodVars>>

NextLevels == FindSupportResistance

SpecLevels == InitLevels /\ [][NextLevels]_vars

----------------------------------------------------------------------------
(* calculate_rsi.  A series value is NaN (missing, the empty tuple) or a   *)
(* fraction <<n, d>> with d > 0 in lowest terms.                           *)

NaN == <<>>

RECURSIVE GCD(_, _)
GCD(a, b) == IF b = 0 THEN a ELSE GCD(b, a % b)

Rat(n, d) ==
    LET g == GCD(Abs(n), Abs(d))
        sgn == IF d < 0 THEN -1 ELSE 1
    IN  <<(sgn * n) \div g, (sgn * d) \div g>>

\* NaN propagates; a zero divisor cannot occur after the epsilon replacement
RatAdd(a, b) ==
    IF a = NaN \/ b = NaN THEN NaN ELSE Rat(a[1] * b[2] + b[1] * a[2], a[2] * b[2])

RatSub(a, b) ==
    IF a = NaN \/ b = NaN THEN NaN ELSE Rat(a[1] * b[2] - b[1] * a[2], a[2] * b[2])

RatDiv(a, b) ==
    IF a = NaN \/ b = NaN THEN NaN
    ELSE IF b[1] = 0 THEN NaN
    ELSE Rat(a[1] * b[2], a[2] * b[1])

\* np.finfo(float).eps is 2^-52; TLC's integers are 32 bits wide, so the
\* model's epsilon is 2^-16, still far below every positive average of
\* whole-dollar moves over a window
EpsDen == 65536

Eps == <<1, EpsDen>>

\* data['close'].diff(): missing in the first row
diff(close, i) == IF i = 1 THEN NaN ELSE <<close[i] - close[i - 1], 1>>

\* delta.where(delta > 0, 0): a row whose condition is false, the missing
\* first row included, becomes 0
gain(close, i) ==
    LET delta == diff(close, i) IN IF delta # NaN /\ delta[1] > 0 THEN delta[1] ELSE 0

\* variant: the sign of the losses is not flipped
loss_not_negated(close, i) ==
    LET delta == diff(close, i) IN IF delta # NaN /\ delta[1] < 0 THEN delta[1] ELSE 0

\* -delta.where(delta < 0, 0)
loss(close, i) ==
    LET delta == diff(close, i) IN -(IF delta # NaN /\ delta[1] < 0 THEN delta[1] ELSE 0)

gains(close) == [i \in 1..Len(close) |-> gain(close, i)]

losses(close) == [i \in 1..Len(close) |-> loss(close, i)]

RECURSIVE SumOver(_, _, _)
SumOver(series, lo, hi) ==
    IF lo > hi THEN 0 ELSE series[hi] + SumOver(series, lo, hi - 1)

\* .rolling(window=w).mean(): missing until w rows are in the window
rolling_mean(series, w, i) ==
    IF i < w THEN NaN ELSE Rat(SumOver(series, i - w + 1, i), w)

avg_gain(close, w, i) == rolling_mean(gains(close), w, i)

avg_loss(close, w, i) == rolling_mean(losses(close), w, i)

\* variant: a zero average loss is left in place
keep_zero(x) == x

\* avg_loss.replace(0, np.finfo(float).eps)

replace_zero(x) == IF x = <<0, 1>> THEN Eps ELSE x

rsi_at(close, w, i) ==
    LET rs == RatDiv(avg_gain(close, w, i), replace_zero(avg_loss(close, w, i)))
    IN  RatSub(<<100, 1>>, RatDiv(<<100, 1>>, RatAdd(<<1, 1>>, rs)))

calculate_rsi(close, w) == [i \in 1..Len(close) |-> rsi_at(close, w, i)]

MaxRsiLen == 5

MaxRsiWindow == 3

RsiCloses == {1900, 1901, 1902, 1905}

RsiSeries == UNION { [1..n -> RsiCloses] : n \in 0..MaxRsiLen }

InitRsi ==
    /\ pc = "calculate_rsi"
    /\ closes \in RsiSeries
    /\ window \in 1..MaxRsiWindow
    /\ prominence2 = 0
    /\ support_levels = <<>> /\ resistance_levels = <<>>
    /\ rsi = <<>>
    /\ feed = None /\ data = None
    /\ api_key = None /\ env_key = None /\ client = None
    /\ market_data = None /\ analysis_data = None
    /\ service = [kind |-> "none", content |-> <<>>]
    /\ requests = 0 /\ signal_data = <<>> /\ raised = None
    /\ num_std = 0 /\ bands = <<>>
    /\ config = None /\ tables = <<>> /\ session = None
    /\ period = None /\ interval = None /\ forwarded = None

CalculateRsi ==
    /\ pc = "calculate_rsi"
    /\ rsi' = calculate_rsi(closes, window)
    /\ pc' = "returned"
    /\ UNCHANGED <<closes, window, prominence2, support_levels, resistance_levels>>
    /\ UNCHANGED fetchVars
    /\ UNCHANGED signalVars
    /\ UNCHANGED <<bollingerVars, appVars, periodVars>>

NextRsi == CalculateRsi

SpecRsi == InitRsi /\ [][NextRsi]_vars

----------------------------------------------------------------------------
(* calculate_bollinger_bands.  The middle band is a fraction.  An outer    *)
(* band is [base, k, rad], the number base + k * sqrt(rad) with base and   *)
(* rad fractions and k an integer, so that the square root of the rolling  *)
(* variance is carried exactly.                                            *)

RatMul(a, b) ==
    IF a = NaN \/ b = NaN THEN NaN ELSE Rat(a[1] * b[1], a[2] * b[2])

Sgn(n) == IF n > 0 THEN 1 ELSE IF n < 0 THEN -1 ELSE 0

\* the sum over rows lo..hi of (w * x - total)^2, total the sum of the window
RECURSIVE SquaredDeviations(_, _, _, _, _)
SquaredDeviations(series, w, total, lo, hi) ==
    IF lo > hi THEN 0
    ELSE (w * series[hi] - total) * (w * series[hi] - total)
             + SquaredDeviations(series, w, total, lo, hi - 1)

\* the square of .rolling(window=w).std(): the sample variance (ddof=1),
\* missing until w rows are in the window, and in every row when w = 1
rolling_var(series, w, i) ==
    IF i < w \/ w < 2 THEN NaN
    ELSE Rat(SquaredDeviations(series, w, SumOver(series, i - w + 1, i), i - w + 1, i),
             w * w * (w - 1))

\* middle_band = data['close'].rolling(window=window).mean()
middle_band(close, w, i) == rolling_mean(close, w, i)

\* middle_band + k * std_dev; a missing operand makes the sum missing
plus_std(middle, k, var) ==
    IF middle = NaN \/ var = NaN THEN NaN ELSE [base |-> middle, k |-> k, rad |-> var]

\* upper_band = middle_band + (std_dev * num_std)
upper_band(close, w, n, i) ==
    plus_std(middle_band(close, w, i), n, rolling_var(close, w, i))

\* variant: the deviation is added to the lower band too
lower_band_added(close, w, n, i) ==
    plus_std(middle_band(close, w, i), n, rolling_var(close, w, i))

\* lower_band = middle_band - (std_dev * num_std)
lower_band(close, w, n, i) ==
    plus_std(middle_band(close, w, i), -n, rolling_var(close, w, i))

calculate_bollinger_bands(close, w, n) ==
    [upper  |-> [i \in 1..Len(close) |-> upper_band(close, w, n, i)],
     middle |-> [i \in 1..Len(close) |-> middle_band(close, w, i)],
     lower  |-> [i \in 1..Len(close) |-> lower_band(close, w, n, i)]]

MaxBbWindow == 3

NumStds == {1, 2}

NoBands == [upper |-> <<>>, middle |-> <<>>, lower |-> <<>>]

InitBollinger ==
    /\ pc = "calculate_bollinger_bands"
    /\ closes \in RsiSeries
    /\ window \in 1..MaxBbWindow
    /\ num_std \in NumStds
    /\ bands = NoBands
    /\ prominence2 = 0
    /\ support_levels = <<>> /\ resistance_levels = <<>>
    /\ rsi = <<>>
    /\ feed = None /\ data = None
    /\ api_key = None /\ env_key = None /\ client = None
    /\ market_data = None /\ analysis_data = None
    /\ service = [kind |-> "none", content |-> <<>>]
    /\ requests = 0 /\ signal_data = <<>> /\ raised = None
    /\ config = None /\ tables = <<>> /\ session = None
    /\ period = None /\ interval = None /\ forwarded = None

CalculateBollingerBands ==
    /\ pc = "calculate_bollinger_bands"
    /\ bands' = calculate_bollinger_bands(closes, window, num_std)
    /\ pc' = "returned"
    /\ UNCHANGED <<closes, window, prominence2, support_levels, resistance_levels, rsi>>
    /\ UNCHANGED num_std
    /\ UNCHANGED fetchVars
    /\ UNCHANGED signalVars
    /\ UNCHANGED <<appVars, periodVars>>

NextBollinger == CalculateBollingerBands

SpecBollinger == InitBollinger /\ [][NextBollinger]_vars

----------------------------------------------------------------------------
(* SignalGenerator: the constructor and generate_trade_signal.  A reply is *)
(* a function from keys to values, as the dict the code returns.           *)

ReplyKeys ==
    {"signal", "entry_price", "stop_loss", "take_profit",
     "confidence", "rationale", "risk_factors"}

Signals == {"BUY", "SELL", "NEUTRAL"}

Confidences == {"LOW", "MEDIUM", "HIGH"}

\* the dict of the early return
InsufficientData == [k \in {"error"} |-> "Insufficient data to generate trade signal"]

\* the dict of the except branch; the rationale's ": {str(e)}" tail is left out
ErrorReply ==
    [k \in ReplyKeys |->
        CASE k = "signal" -> "ERROR"
          [] k \in {"entry_price", "stop_loss", "take_profit"} -> 0
          [] k = "confidence" -> "LOW"
          [] k = "rationale" -> "Failed to generate trade signal"
          [] OTHER -> "Unable to assess risks due to signal generation failure"]

\* a JSON object the service may send: any subset of the schema's keys,
\* with a signal and a confidence inside or outside the schema's values
JsonObject(keys, sig, conf) ==
    [k \in keys |->
        CASE k = "signal" -> sig
          [] k \in {"entry_price", "stop_loss", "take_profit"} -> 2000
          [] k = "confidence" -> conf
          [] OTHER -> "text"]

JsonObjects ==
    { JsonObject(keys, sig, conf) :
        keys \in SUBSET ReplyKeys,
        sig \in Signals \cup {"HOLD"},
        conf \in Confidences \cup {"VERY HIGH"} }

\* what one chat.completions.create call can end in: an exception (network,
\* authentication, rate limit), a message that is no JSON, or a JSON object
ServiceOutcomes ==
    {[kind |-> "raises", content |-> <<>>], [kind |-> "not_json", content |-> <<>>]}
        \cup { [kind |-> "json", content |-> o] : o \in JsonObjects }

NoRequest == [kind |-> "none", content |-> <<>>]

ApiKeys == {None, "", "sk-user"}

EnvKeys == {None, "sk-env"}

\* market_data: a table without or with rows
MarketData == {"empty", "rows"}

\* analysis_data: None, {}, a dict lacking a key the summary reads, or the
\* bundle of calculate_all_indicators
AnalysisData == {None, "empty_dict", "incomplete", "bundle"}

\* `not api_key`: None and "" are false
Falsy(k) == k = None \/ k = ""

\* the key OpenAI(api_key=...) ends up with; without one it raises
resolved_key(key, env) == IF Falsy(key) THEN env ELSE key

\* variant: a failed request is sent once more
generate_trade_signal_retrying(market, analysis, outcome) ==
    IF market = "empty" \/ analysis = None \/ analysis = "empty_dict"
    THEN [reply |-> InsufficientData, requests |-> 0, service |-> NoRequest]
    ELSE IF analysis = "incomplete"
    THEN [reply |-> ErrorReply, requests |-> 0, service |-> NoRequest]
    ELSE IF outcome.kind = "json"
    THEN [reply |-> outcome.content, requests |-> 1, service |-> outcome]
    ELSE [reply |-> ErrorReply, requests |-> 2, service |-> outcome]

\* the whole try block: the early return, the summary (a KeyError on an
\* incomplete bundle), the single request, json.loads, and the except branch
generate_trade_signal(market, analysis, outcome) ==
    IF market = "empty" \/ analysis = None \/ analysis = "empty_dict"
    THEN [reply |-> InsufficientData, requests |-> 0, service |-> NoRequest]
    ELSE IF analysis = "incomplete"
    THEN [reply |-> ErrorReply, requests |-> 0, service |-> NoRequest]
    ELSE IF outcome.kind = "json"
    THEN [reply |-> outcome.content, requests |-> 1, service |-> outcome]
    ELSE [reply |-> ErrorReply, requests |-> 1, service |-> outcome]

InitSignal ==
    /\ pc = "construct"
    /\ api_key \in ApiKeys
    /\ env_key \in EnvKeys
    /\ market_data \in MarketData
    /\ analysis_data \in AnalysisData
    /\ client = None
    /\ service = NoRequest /\ requests = 0 /\ signal_data = <<>> /\ raised = None
    /\ closes = <<>> /\ window = 0 /\ prominence2 = 0
    /\ support_levels = <<>> /\ resistance_levels = <<>>
    /\ rsi = <<>>
    /\ feed = None /\ data = None
    /\ num_std = 0 /\ bands = <<>>
    /\ config = None /\ tables = <<>> /\ session = None
    /\ period = None /\ interval = None /\ forwarded = None

\* SignalGenerator.__init__: outside any try block
Construct ==
    /\ pc = "construct"
    /\ IF resolved_key(api_key, env_key) = None
       THEN /\ raised' = "OpenAIError"
            /\ client' = client
            /\ pc' = "raised"
       ELSE /\ client' = resolved_key(api_key, env_key)
            /\ raised' = raised
            /\ pc' = "generate_trade_signal"
    /\ UNCHANGED <<api_key, env_key, market_data, analysis_data,
                   service, requests, signal_data>>
    /\ UNCHANGED <<closes, window, prominence2, support_levels, resistance_levels, rsi>>
    /\ UNCHANGED fetchVars
    /\ UNCHANGED <<bollingerVars, appVars, periodVars>>

GenerateTradeSignal ==
    /\ pc = "generate_trade_signal"
    /\ \E outcome \in ServiceOutcomes :
          LET r == generate_trade_signal(market_data, analysis_data, outcome)
          IN  /\ signal_data' = r.reply
              /\ requests' = r.requests
              /\ service' = r.service
    /\ pc' = "returned"
    /\ UNCHANGED <<api_key, env_key, client, market_data, analysis_data, raised>>
    /\ UNCHANGED <<closes, window, prominence2, support_levels, resistance_levels, rsi>>
    /\ UNCHANGED fetchVars
    /\ UNCHANGED <<bollingerVars, appVars, periodVars>>

NextSignal == Construct \/ GenerateTradeSignal

SpecSignal == InitSignal /\ [][NextSignal]_vars

----------------------------------------------------------------------------
(* fetch_xauusd_data.  A column name is a tuple of characters, so that     *)
(* lowercasing, the replacement of spaces and the substring tests are      *)
(* computed on the text.  A column is [name, src]: src is the position of  *)
(* the column in the downloaded table (0 for the index), which follows the *)
(* values through every rename.                                            *)

lower_char(c) ==
    CASE c = "A" -> "a" [] c = "C" -> "c" [] c = "D" -> "d" [] c = "F" -> "f"
      [] c = "G" -> "g" [] c = "H" -> "h" [] c = "L" -> "l" [] c = "O" -> "o"
      [] c = "P" -> "p" [] c = "T" -> "t" [] c = "V" -> "v"
      [] OTHER -> c

\* str(col).lower()
lower(name) == [i \in 1..Len(name) |-> lower_char(name[i])]

\* str(col).lower().replace(' ', '_')
normalized_name(name) ==
    [i \in 1..Len(name) |-> IF lower_char(name[i]) = " " THEN "_" ELSE lower_char(name[i])]

\* sub in name
Contains(sub, name) ==
    \E i \in 1..(Len(name) - Len(sub) + 1) : SubSeq(name, i, i + Len(sub) - 1) = sub

n_date == <<"d", "a", "t", "e">>
n_datetime == <<"d", "a", "t", "e", "t", "i", "m", "e">>
n_time == <<"t", "i", "m", "e">>
n_index == <<"i", "n", "d", "e", "x">>
n_level_0 == <<"l", "e", "v", "e", "l", "_", "0">>
n_open == <<"o", "p", "e", "n">>
n_high == <<"h", "i", "g", "h">>
n_low == <<"l", "o", "w">>
n_close == <<"c", "l", "o", "s", "e">>
n_volume == <<"v", "o", "l", "u", "m", "e">>
n_adj_close == <<"a", "d", "j", "_", "c", "l", "o", "s", "e">>
n_price_change == <<"p", "r", "i", "c", "e", "_", "c", "h", "a", "n", "g", "e">>
n_percent_change == <<"p", "e", "r", "c", "e", "n", "t", "_", "c", "h", "a", "n", "g", "e">>

N_Date == <<"D", "a", "t", "e">>
N_Datetime == <<"D", "a", "t", "e", "t", "i", "m", "e">>
N_Open == <<"O", "p", "e", "n">>
N_High == <<"H", "i", "g", "h">>
N_Low == <<"L", "o", "w">>
N_Close == <<"C", "l", "o", "s", "e">>
N_AdjClose == <<"A", "d", "j", " ", "C", "l", "o", "s", "e">>
N_Volume == <<"V", "o", "l", "u", "m", "e">>
N_Timestamp == <<"T", "i", "m", "e", "s", "t", "a", "m", "p">>
N_Price == <<"P", "r", "i", "c", "e">>
Ticker == <<"G", "C", "=", "F">>

NoName == <<>>

\* the first level a two-level header collapses to
FieldNames == {N_Open, N_High, N_Low, N_Close, N_Volume, N_AdjClose}

time_words == {n_date, n_time, n_datetime}

required_columns == <<n_open, n_high, n_low, n_close, n_volume>>

Names(cols) == { cols[i].name : i \in 1..Len(cols) }

Count(cols, name) == Cardinality({ i \in 1..Len(cols) : cols[i].name = name })

\* data.rename(columns={old: new})
Rename(cols, old, new) ==
    [i \in 1..Len(cols) |->
        IF cols[i].name = old THEN [cols[i] EXCEPT !.name = new] ELSE cols[i]]

Raised == [raised |-> TRUE, columns |-> <<>>, rows |-> "none"]

\* pd.DataFrame(columns=['date', 'open', 'high', 'low', 'close', 'volume'])
EmptyTable ==
    [raised |-> FALSE,
     columns |-> [i \in 1..6 |->
                    [name |-> (<<n_date>> \o required_columns)[i], src |-> -3]],
     rows |-> "none"]

\* lines 54-62: a two-level header collapses to its first level when every
\* first-level name is a field name, else the levels are joined with "_"
flatten(raw) ==
    LET cols == raw.columns
    IN  IF ~raw.multi THEN cols
        ELSE IF \A i \in 1..Len(cols) : cols[i].name \in FieldNames THEN cols
        ELSE [i \in 1..Len(cols) |->
                [cols[i] EXCEPT !.name = cols[i].name \o <<"_">> \o Ticker]]

\* the name reset_index gives the former index
index_column_name(raw, cols) ==
    IF raw.index_name # NoName THEN raw.index_name
    ELSE IF n_index \in Names(cols) THEN n_level_0 ELSE n_index

\* line 69
lowercase_columns(cols) ==
    [i \in 1..Len(cols) |-> [cols[i] EXCEPT !.name = normalized_name(cols[i].name)]]

has_time_word(name) == \E w \in time_words : Contains(w, lower(name))

\* lines 73-85: the name of the column taken as the timestamp, NoName if none
date_col(cols) ==
    IF n_date \in Names(cols) THEN n_date
    ELSE IF n_datetime \in Names(cols) THEN n_datetime
    ELSE IF \E i \in 1..Len(cols) : has_time_word(cols[i].name)
         THEN cols[SetMin({ i \in 1..Len(cols) : has_time_word(cols[i].name) })].name
    ELSE NoName

\* after reset_index the table has a RangeIndex, never a DatetimeIndex
index_type_after_reset == "RangeIndex"

\* lines 104-111: each required name not among the columns is given to the
\* first column that equals it when lowercased
RECURSIVE match_case_insensitive(_, _, _)
match_case_insensitive(cols, actual, k) ==
    IF k > Len(required_columns) THEN cols
    ELSE LET req == required_columns[k]
             hits == { i \in 1..Len(actual) : lower(actual[i].name) = req }
         IN  IF req \notin Names(actual) /\ hits # {}
             THEN match_case_insensitive(Rename(cols, actual[SetMin(hits)].name, req),
                                         actual, k + 1)
             ELSE match_case_insensitive(cols, actual, k + 1)

\* line 114
missing_columns(cols) ==
    { k \in 1..Len(required_columns) : required_columns[k] \notin Names(cols) }

\* lines 119-130: each missing name, in order, is given to the first column
\* whose lowercased name contains it; the result is the columns and the
\* names still missing
RECURSIVE match_substring(_, _, _)
match_substring(cols, missing, k) ==
    IF k > Len(required_columns) THEN [columns |-> cols, missing |-> missing]
    ELSE LET req == required_columns[k]
             hits == { i \in 1..Len(cols) : Contains(req, lower(cols[i].name)) }
         IN  IF k \in missing /\ hits # {}
             THEN match_substring(Rename(cols, cols[SetMin(hits)].name, req),
                                  missing \ {k}, k + 1)
             ELSE match_substring(cols, missing, k + 1)

\* lines 136-139
adj_close_fallback(r) ==
    IF 4 \in r.missing /\ n_adj_close \in Names(r.columns)
    THEN [columns |-> Rename(r.columns, n_adj_close, n_close), missing |-> r.missing \ {4}]
    ELSE r

\* variant: a table without a volume column is let through
volume_optional(missing) == missing \ {5} # {}

\* lines 142-143: raise when a required column is still missing
cannot_proceed(missing) == missing # {}

\* variant: the column is appended even when the name is taken
append_column(cols, name, src) == Append(cols, [name |-> name, src |-> src])

\* data[name] = ...: the column is overwritten in place, or appended
set_column(cols, name, src) ==
    IF name \in Names(cols)
    THEN [i \in 1..Len(cols) |->
            IF cols[i].name = name THEN [name |-> name, src |-> src] ELSE cols[i]]
    ELSE Append(cols, [name |-> name, src |-> src])

\* the body of the try block, lines 44-150; Raised stands for any exception
normalize(raw) ==
    IF raw.download = "raises" THEN Raised
    ELSE IF raw.rows = "none" \/ Len(raw.columns) = 0 THEN Raised
    ELSE
    LET flat == flatten(raw)
        idx == index_column_name(raw, flat)
    IN  IF idx \in Names(flat) THEN Raised
        ELSE
        LET cols == lowercase_columns(<<[name |-> idx, src |-> 0]>> \o flat)
            dc == date_col(cols)
        IN  IF dc = NoName /\ index_type_after_reset # "DatetimeIndex" THEN Raised
            ELSE
            LET dated == IF dc = NoName
                         THEN set_column(cols, n_date, -4)
                         ELSE Rename(cols, dc, n_date)
            IN  IF dc # NoName /\ (Count(dated, n_date) > 1 \/ raw.cells = "bad_dates")
                THEN Raised
                ELSE
                LET matched == match_case_insensitive(dated, dated, 1)
                    r == adj_close_fallback(
                             match_substring(matched, missing_columns(matched), 1))
                IN  IF cannot_proceed(r.missing) THEN Raised
                    ELSE IF Count(r.columns, n_close) > 1 \/ raw.cells = "bad_prices"
                    THEN Raised
                    ELSE [raised |-> FALSE,
                          columns |-> set_column(
                              set_column(r.columns, n_price_change, -1),
                              n_percent_change, -2),
                          rows |-> "some"]

\* lines 17 and 152-157: whatever the body raises, the empty table is returned
fetch_xauusd_data(raw) ==
    LET r == normalize(raw) IN IF r.raised THEN EmptyTable ELSE r

\* the first-level column names a download may carry, in table order
RawNames ==
    <<N_Open, N_High, N_Low, N_Close, N_AdjClose, N_Volume, n_close, N_Timestamp, N_Price>>

RECURSIVE ColumnsAt(_, _)
ColumnsAt(picked, i) ==
    IF i > Len(RawNames) THEN <<>>
    ELSE (IF i \in picked THEN <<[name |-> RawNames[i], src |-> i]>> ELSE <<>>)
             \o ColumnsAt(picked, i + 1)

IndexNames == {NoName, N_Date, N_Datetime}

\* what the cells allow: clean, a timestamp column pd.to_datetime rejects,
\* or a close column diff() cannot subtract
Cells == {"clean", "bad_dates", "bad_prices"}

\* a table fetch_xauusd_data has already returned: a plain row index, the
\* canonical columns (price_change and percent_change derived from close)
\* and the other columns the download happened to carry
CanonicalExtras == <<n_adj_close, n_index>>

RECURSIVE ExtrasAt(_, _)
ExtrasAt(picked, i) ==
    IF i > Len(CanonicalExtras) THEN <<>>
    ELSE (IF i \in picked THEN <<[name |-> CanonicalExtras[i], src |-> 8 + i]>> ELSE <<>>)
             \o ExtrasAt(picked, i + 1)

CanonicalColumns(picked) ==
    [i \in 1..6 |-> [name |-> (<<n_date>> \o required_columns)[i], src |-> i]]
        \o <<[name |-> n_price_change, src |-> -1],
             [name |-> n_percent_change, src |-> -2]>>
        \o ExtrasAt(picked, 1)

CanonicalFeeds ==
    [download : {"ok"}, rows : {"some"}, multi : {FALSE}, index_name : {NoName},
     index_type : {"RangeIndex"},
     columns : { CanonicalColumns(picked) : picked \in SUBSET (1..Len(CanonicalExtras)) },
     cells : {"clean"}]

\* yf.download indexes its rows by timestamp
Feeds ==
    [download : {"ok"}, rows : {"some"}, multi : BOOLEAN, index_name : IndexNames,
     index_type : {"DatetimeIndex"},
     columns : { ColumnsAt(picked, 1) : picked \in SUBSET (1..Len(RawNames)) },
     cells : Cells]
    \cup
    [download : {"ok", "raises"}, rows : {"none"}, multi : {FALSE},
     index_name : {N_Datetime}, index_type : {"DatetimeIndex"},
     columns : { ColumnsAt({1, 2, 3, 4, 6}, 1) },
     cells : {"clean"}]
    \cup CanonicalFeeds

InitFetch ==
    /\ pc = "fetch_xauusd_data"
    /\ feed \in Feeds
    /\ data = Raised
    /\ closes = <<>> /\ window = 0 /\ prominence2 = 0
    /\ support_levels = <<>> /\ resistance_levels = <<>>
    /\ rsi = <<>>
    /\ api_key = None /\ env_key = None /\ client = None
    /\ market_data = None /\ analysis_data = None
    /\ service = NoRequest /\ requests = 0 /\ signal_data = <<>> /\ raised = None
    /\ num_std = 0 /\ bands = <<>>
    /\ config = None /\ tables = <<>> /\ session = None
    /\ period = None /\ interval = None /\ forwarded = None

FetchXauusdData ==
    /\ pc = "fetch_xauusd_data"
    /\ data' = fetch_xauusd_data(feed)
    /\ pc' = "returned"
    /\ UNCHANGED feed
    /\ UNCHANGED <<closes, window, prominence2, support_levels, resistance_levels, rsi>>
    /\ UNCHANGED signalVars
    /\ UNCHANGED <<bollingerVars, appVars, periodVars>>

NextFetch == FetchXauusdData

SpecFetch == InitFetch /\ [][NextFetch]_vars

----------------------------------------------------------------------------
(* fetch_xauusd_data, lines 22-44: the period handed to yf.download *)

valid_periods == {"1d", "5d", "1mo", "3mo", "6mo", "1y", "2y", "5y", "10y", "ytd", "max"}

period_map ==
    [p \in {"1w", "1m", "3m", "6m", "1yr", "2yr", "5yr", "10yr"} |->
        CASE p = "1w" -> "5d" [] p = "1m" -> "1mo" [] p = "3m" -> "3mo"
          [] p = "6m" -> "6mo" [] p = "1yr" -> "1y" [] p = "2yr" -> "2y"
          [] p = "5yr" -> "5y" [] p = "10yr" -> "10y"]

\* def fetch_xauusd_data(period='2d', interval='1h')
default_period == "2d"

default_interval == "1h"

\* the choices of the sidebar's two select boxes, and the preselected period
ui_periods == <<"1d", "2d", "5d", "1mo", "3mo", "6mo", "1y">>

ui_intervals == <<"15m", "30m", "1h", "2h", "4h", "1d">>

ui_period == ui_periods[1 + 1]

\* variant: a period that is neither an alias nor valid is passed on as it is
translated_unchecked(p) ==
    IF p \in DOMAIN period_map THEN period_map[p] ELSE p

\* lines 37-41
translated(p) ==
    IF p \in DOMAIN period_map THEN period_map[p]
    ELSE IF p \notin valid_periods THEN "1d"
    ELSE p

\* the periods a caller may pass: the valid ones, the aliases, the default,
\* the sidebar's choices and some that are none of these
Periods ==
    valid_periods \cup DOMAIN period_map \cup {default_period}
        \cup { ui_periods[i] : i \in 1..Len(ui_periods) }
        \cup {"", "7d", "1W", "MAX", "1mo ", "week"}

Intervals == {default_interval} \cup { ui_intervals[i] : i \in 1..Len(ui_intervals) }

NotCalled == [period |-> None, interval |-> None]

InitPeriod ==
    /\ pc = "fetch_xauusd_data"
    /\ period \in Periods
    /\ interval \in Intervals
    /\ forwarded = NotCalled
    /\ closes = <<>> /\ window = 0 /\ prominence2 = 0
    /\ support_levels = <<>> /\ resistance_levels = <<>>
    /\ rsi = <<>>
    /\ feed = None /\ data = None
    /\ api_key = None /\ env_key = None /\ client = None
    /\ market_data = None /\ analysis_data = None
    /\ service = NoRequest /\ requests = 0 /\ signal_data = <<>> /\ raised = None
    /\ num_std = 0 /\ bands = <<>>
    /\ config = None /\ tables = <<>> /\ session = None

\* yf.download("GC=F", period=period, interval=interval, ...)
Download ==
    /\ pc = "fetch_xauusd_data"
    /\ forwarded' = [period |-> translated(period), interval |-> interval]
    /\ pc' = "yf.download"
    /\ UNCHANGED <<period, interval>>
    /\ UNCHANGED <<closes, window, prominence2, support_levels, resistance_levels, rsi>>
    /\ UNCHANGED fetchVars
    /\ UNCHANGED signalVars
    /\ UNCHANGED <<bollingerVars, appVars>>

NextPeriod == Download

SpecPeriod == InitPeriod /\ [][NextPeriod]_vars

----------------------------------------------------------------------------
(* app.py: the sliders, update_data and the readers of the bundle.  Tables *)
(* are objects: `tables` holds every DataFrame of the session and the      *)
(* session refers to them by position, so that a function that assigns to  *)
(* its argument changes the object its caller holds.  A column is          *)
(* [name, src]; src names the call that computed the values.               *)

n_rsi == <<"r", "s", "i">>
n_macd == <<"m", "a", "c", "d">>
n_macd_signal == <<"m", "a", "c", "d", "_", "s", "i", "g", "n", "a", "l">>
n_macd_histogram ==
    <<"m", "a", "c", "d", "_", "h", "i", "s", "t", "o", "g", "r", "a", "m">>
n_bb_upper == <<"b", "b", "_", "u", "p", "p", "e", "r">>
n_bb_middle == <<"b", "b", "_", "m", "i", "d", "d", "l", "e">>
n_bb_lower == <<"b", "b", "_", "l", "o", "w", "e", "r">>

\* st.sidebar.slider(label, min_value, max_value, value)
slider(lo, hi, value) == [lo |-> lo, hi |-> hi, value |-> value]

sliders ==
    [rsi_window  |-> slider(7, 21, 14),
     macd_fast   |-> slider(8, 20, 12),
     macd_slow   |-> slider(20, 30, 26),
     macd_signal |-> slider(5, 15, 9),
     bb_window   |-> slider(10, 30, 20)]

Options == DOMAIN sliders

\* the positions of a slider the model moves it to: its two ends and the
\* position it starts at
Positions(option) == {sliders[option].lo, sliders[option].value, sliders[option].hi}

\* the defaults of calculate_rsi, calculate_macd and calculate_bollinger_bands
rsi_window_default == 14

fast_period_default == 12

slow_period_default == 26

signal_period_default == 9

bb_window_default == 20

num_std_default == 2

Fetched == [fn |-> "fetch_xauusd_data", args |-> <<>>]

\* what load_market_data returns: the canonical table, or the empty one
Rows == {48}

LoadedTables ==
    { [columns |-> [i \in 1..8 |->
                      [name |-> (<<n_date>> \o required_columns
                                   \o <<n_price_change, n_percent_change>>)[i],
                       src |-> Fetched]],
       rows |-> r] : r \in Rows }
    \cup
    { [columns |-> [i \in 1..6 |->
                      [name |-> (<<n_date>> \o required_columns)[i], src |-> Fetched]],
       rows |-> 0] }

\* variant: the table itself is handed on, not a copy
share_table(heap, id) == [heap |-> heap, id |-> id]

\* st.session_state.market_data.copy(): a new object with the same content
copy_table(heap, id) == [heap |-> Append(heap, heap[id]), id |-> Len(heap) + 1]

\* calculate_all_indicators(data), lines 120-131: the seven assignments to
\* the argument; every indicator function is called without its optional
\* arguments
indicator_columns(cols) ==
    LET rsi_src == [fn |-> "calculate_rsi", args |-> <<rsi_window_default>>]
        macd_src == [fn |-> "calculate_macd",
                     args |-> <<fast_period_default, slow_period_default,
                                signal_period_default>>]
        bb_src == [fn |-> "calculate_bollinger_bands",
                   args |-> <<bb_window_default, num_std_default>>]
    IN  set_column(set_column(set_column(set_column(set_column(set_column(set_column(
            cols, n_rsi, rsi_src),
            n_macd, macd_src), n_macd_signal, macd_src), n_macd_histogram, macd_src),
            n_bb_upper, bb_src), n_bb_middle, bb_src), n_bb_lower, bb_src)

\* calculate_all_indicators(data): the table at id is changed in place and
\* the bundle refers to that same table
calculate_all_indicators(heap, id) ==
    [heap |-> [heap EXCEPT ![id].columns = indicator_columns(@)],
     bundle |-> [data |-> id]]

NoAnalysis == [data |-> 0]

NoSignal == [market_data |-> 0, rows |-> 0]

NoFigures == [price |-> <<>>, macd |-> <<>>]

\* update_data(), lines 67-76
update_data(heap, sess, loaded) ==
    LET h1 == Append(heap, loaded)
        m == Len(h1)
    IN  IF loaded.rows = 0
        THEN [tables |-> h1, session |-> [sess EXCEPT !.market_data = m]]
        ELSE LET c == copy_table(h1, m)
                 r == calculate_all_indicators(c.heap, c.id)
             IN  [tables |-> r.heap,
                  session |-> [sess EXCEPT !.market_data = m,
                                           !.analysis_data = r.bundle]]

\* the columns create_price_chart and create_macd_chart read
price_chart_columns ==
    <<n_date, n_open, n_high, n_low, n_close, n_bb_upper, n_bb_middle, n_bb_lower, n_rsi>>

macd_chart_columns == <<n_date, n_macd, n_macd_signal, n_macd_histogram>>

\* the traces of a figure: for each column read, where its values came from
traces(table, names) ==
    [i \in 1..Len(names) |->
        table.columns[SetMin({ j \in 1..Len(table.columns) :
                                  table.columns[j].name = names[i] })].src.fn]

\* market_data.tail(24).copy(): how many rows the summary is made from
tail(rows) == IF rows > 24 THEN 24 ELSE rows

MaxTables == 4

InitApp ==
    /\ pc = "app"
    /\ config = [o \in Options |-> sliders[o].value]
    /\ tables = <<>>
    /\ session = [market_data |-> 0, analysis_data |-> NoAnalysis,
                  signal_data |-> NoSignal, figures |-> NoFigures]
    /\ closes = <<>> /\ window = 0 /\ prominence2 = 0
    /\ support_levels = <<>> /\ resistance_levels = <<>>
    /\ rsi = <<>>
    /\ feed = None /\ data = None
    /\ api_key = None /\ env_key = None /\ client = None
    /\ market_data = None /\ analysis_data = None
    /\ service = NoRequest /\ requests = 0 /\ signal_data = <<>> /\ raised = None
    /\ num_std = 0 /\ bands = <<>>
    /\ period = None /\ interval = None /\ forwarded = None

idleInApp ==
    <<closes, window, prominence2, support_levels, resistance_levels, rsi,
      fetchVars, signalVars, bollingerVars, periodVars, pc>>

\* the user moves one slider; the script reruns and reads the new value
MoveSlider ==
    /\ \E o \in Options : \E v \in Positions(o) \ {config[o]} :
           config' = [config EXCEPT ![o] = v]
    /\ UNCHANGED <<tables, session>>
    /\ UNCHANGED idleInApp

\* the first run, or the Update Data button
UpdateData ==
    /\ Len(tables) + 2 <= MaxTables
    /\ \E loaded \in LoadedTables :
           LET r == update_data(tables, session, loaded)
           IN  tables' = r.tables /\ session' = r.session
    /\ UNCHANGED config
    /\ UNCHANGED idleInApp

\* lines 108-123: both charts are drawn from analysis_data['data']
CreateCharts ==
    /\ session.market_data # 0 /\ tables[session.market_data].rows > 0
    /\ session.analysis_data # NoAnalysis
    /\ session' =
           [session EXCEPT !.figures =
               [price |-> traces(tables[session.analysis_data.data], price_chart_columns),
                macd |-> traces(tables[session.analysis_data.data], macd_chart_columns)]]
    /\ UNCHANGED <<config, tables>>
    /\ UNCHANGED idleInApp

\* lines 151-162: generate_trade_signal(market_data, analysis_data) reads the
\* last rows of the market data and the last row of the bundle's table
GenerateSignal ==
    /\ session.market_data # 0 /\ tables[session.market_data].rows > 0
    /\ session.analysis_data # NoAnalysis
    /\ session' =
           [session EXCEPT !.signal_data =
               [market_data |-> session.market_data,
                rows |-> tail(tables[session.market_data].rows)]]
    /\ UNCHANGED <<config, tables>>
    /\ UNCHANGED idleInApp

NextApp == MoveSlider \/ UpdateData \/ CreateCharts \/ GenerateSignal

SpecApp == InitApp /\ [][NextApp]_vars

----------------------------------------------------------------------------
(* Level detector: claims C5, C6, C7, checked under SpecLevels *)

LevelsReturned == pc = "returned" /\ window > 0

Spaced(levels) ==
    \A i \in 2..Len(levels) :
        RelDen * Abs(levels[i] - levels[i - 1]) > levels[i - 1]

\* C5: find_support_resistance returns at most 5 support levels and at
\* most 5 resistance levels, for every series, window and prominence.
C5_AtMostFiveLevels ==
    LevelsReturned =>
        /\ Len(support_levels) <= 5
        /\ Len(resistance_levels) <= 5

\* more than five extrema were detected on both sides and five of each
\* survive the cut and the de-duplication
C5_Witness ==
    /\ LevelsReturned
    /\ Len(support_candidates(closes, window, prominence2)) > 5
    /\ Len(resistance_candidates(closes, window, prominence2)) > 5
    /\ Len(support_levels) = 5
    /\ Len(resistance_levels) = 5

\* C6 as stated: a series of fewer than 2*window+1 points yields no level.
C6_ShortOfTwoWindowsEmpty ==
    (LevelsReturned /\ Len(closes) < 2 * window + 1) =>
        /\ support_levels = <<>>
        /\ resistance_levels = <<>>

\* C6 amended: a series of fewer than 3 points yields no support and no
\* resistance level, whatever its values (an extremum needs a neighbour on
\* each side; window only separates extrema from each other).
C6_FewerThanThreeEmpty ==
    (LevelsReturned /\ Len(closes) < 3) =>
        /\ support_levels = <<>>
        /\ resistance_levels = <<>>

\* a two-point series with a move in it has been analysed
C6_Witness ==
    /\ LevelsReturned
    /\ Len(closes) = 2
    /\ closes[1] # closes[2]
    /\ support_levels = <<>>
    /\ resistance_levels = <<>>

\* C7: in each returned level set, every level b kept right after a level a
\* has |b - a| / a > 0.001.
C7_AdjacentLevelsSpaced ==
    LevelsReturned => Spaced(support_levels) /\ Spaced(resistance_levels)

\* the de-duplication dropped a resistance candidate and kept at least two
C7_Witness ==
    /\ LevelsReturned
    /\ Len(resistance_levels) >= 2
    /\ Len(resistance_levels) < Len(last_levels(resistance_candidates(closes, window, prominence2)))
    /\ Len(support_levels) >= 2

----------------------------------------------------------------------------
(* calculate_rsi: claims C8, C9, C10, checked under SpecRsi *)

RsiReturned == pc = "returned" /\ Len(rsi) = Len(closes) /\ window > 0

\* C8: for a series of at least window+1 positive closes every non-missing
\* RSI value lies in [0, 100], rows with a zero average loss included.
C8_RsiWithinBounds ==
    (RsiReturned /\ Len(closes) >= window + 1) =>
        \A i \in 1..Len(rsi) :
            rsi[i] # NaN => (0 <= rsi[i][1] /\ rsi[i][1] <= 100 * rsi[i][2])

\* a row with gains and losses strictly inside the interval, and a row
\* where the epsilon stands in for a zero average loss
C8_Witness ==
    /\ RsiReturned
    /\ Len(closes) >= window + 1
    /\ \E i \in 1..Len(rsi) :
          rsi[i] # NaN /\ 0 < rsi[i][1] /\ rsi[i][1] < 100 * rsi[i][2]
            /\ avg_loss(closes, window, i) # <<0, 1>>
    /\ \E i \in 1..Len(rsi) :
          rsi[i] # NaN /\ avg_loss(closes, window, i) = <<0, 1>>

\* C9 as stated: for a series longer than window, the RSI is missing at
\* exactly the row indices 0 .. window-1 and present from row index window on
\* (row index k is position k+1 here).
C9_MissingExactlyFirstWindowRows ==
    (RsiReturned /\ Len(closes) > window) =>
        \A i \in 1..Len(rsi) : (rsi[i] = NaN) <=> (i - 1 <= window - 1)

ApproxHundred(v) ==
    /\ v # NaN
    /\ v[1] <= 100 * v[2]
    /\ LET d == RatSub(<<100, 1>>, v) IN 100 * d[1] <= d[2]

ZeroLossRow(i) ==
    /\ i \in 1..Len(rsi)
    /\ avg_loss(closes, window, i) = <<0, 1>>

\* C10 as stated: at every row with a rolling average loss of exactly 0 the
\* RSI is present and approximately 100, flat series included.
C10_ZeroLossGivesHundred ==
    RsiReturned => \A i \in 1..Len(rsi) : ZeroLossRow(i) => ApproxHundred(rsi[i])

\* C10 amended: at every row with a rolling average loss of exactly 0 the
\* epsilon replaces the divisor and the RSI is present and finite:
\* approximately 100 when the average gain is positive (a rising series),
\* and exactly 0 when the average gain is 0 as well (a flat series).
C10_ZeroLossHundredOrZero ==
    RsiReturned =>
        \A i \in 1..Len(rsi) :
            ZeroLossRow(i) =>
                /\ rsi[i] # NaN
                /\ (avg_gain(closes, window, i) # <<0, 1>> => ApproxHundred(rsi[i]))
                /\ (avg_gain(closes, window, i) = <<0, 1>> => rsi[i] = <<0, 1>>)

StrictlyIncreasing(s) == \A i \in 2..Len(s) : s[i - 1] < s[i]

\* a strictly increasing series longer than the window has been scored
C10_Witness ==
    /\ RsiReturned
    /\ Len(closes) > window
    /\ StrictlyIncreasing(closes)
    /\ ZeroLossRow(Len(rsi))
    /\ ApproxHundred(rsi[Len(rsi)])

----------------------------------------------------------------------------
(* Recommendation builder: claims C2, C3, C4, checked under SpecSignal *)

SignalReturned == pc = "returned" /\ client # None

\* the call could not produce a recommendation
GenerationFailed ==
    \/ market_data = "empty"
    \/ analysis_data # "bundle"
    \/ service.kind \in {"raises", "not_json"}

\* C2: every failure of recommendation generation, a missing API
\* credential included, ends in the ERROR reply, and none reaches the
\* caller of the constructor and generate_trade_signal as an exception.
C2_EveryFailureIsErrorReply ==
    /\ raised = None
    /\ (SignalReturned /\ GenerationFailed) => signal_data = ErrorReply

\* C3: one generate_trade_signal call issues no request when the market
\* data is empty or the analysis bundle is absent (and returns the
\* "Insufficient data" dict), and at most one request otherwise.
C3_AtMostOneRequest ==
    SignalReturned =>
        /\ requests <= 1
        /\ (market_data = "empty" \/ analysis_data \in {None, "empty_dict"}) =>
              (requests = 0 /\ signal_data = InsufficientData)

\* the one request failed and the call returned the ERROR reply
C3_Witness ==
    /\ SignalReturned
    /\ service.kind = "raises"
    /\ requests = 1
    /\ signal_data = ErrorReply

WellFormedRecommendation(reply) ==
    /\ DOMAIN reply = ReplyKeys
    /\ reply["signal"] \in Signals
    /\ reply["confidence"] \in Confidences

\* C4: every value generate_trade_signal returns is a well-formed
\* recommendation (all seven keys, signal and confidence in range) or an
\* explicit failure marker.
C4_ReplyWellFormedOrFailure ==
    SignalReturned =>
        \/ signal_data = ErrorReply
        \/ signal_data = InsufficientData
        \/ WellFormedRecommendation(signal_data)

----------------------------------------------------------------------------
(* Series normalizer: claim C1, checked under SpecFetch *)

FetchReturned == pc = "returned"

canonical_names ==
    {n_date, n_open, n_high, n_low, n_close, n_volume, n_price_change, n_percent_change}

Canonical(t) == t.rows = "some" /\ canonical_names \subseteq Names(t.columns)

\* the names the download carries once flattened, reset and lowercased
ArrivingNames(f) ==
    { normalized_name(n) :
        n \in Names(flatten(f)) \cup {index_column_name(f, flatten(f))} }

NoTimestampName(f) ==
    \A n \in ArrivingNames(f) : ~Contains(n_date, n) /\ ~Contains(n_time, n)

UnresolvablePrice(f) ==
    \E k \in 1..Len(required_columns) :
        \A n \in ArrivingNames(f) : ~Contains(required_columns[k], n)

\* C1: fetch_xauusd_data never raises and returns either a canonical table
\* (date, open, high, low, close, volume, and price_change and
\* percent_change appended) or the empty table with exactly the columns
\* date, open, high, low, close, volume; the empty table is what a feed
\* without a recognisable timestamp column or with an unresolvable price
\* column gets.
C1_CanonicalOrEmpty ==
    FetchReturned =>
        /\ ~data.raised
        /\ data = EmptyTable \/ Canonical(data)
        /\ (NoTimestampName(feed) \/ UnresolvablePrice(feed)) => data = EmptyTable

\* a download with rows, a timestamp and some price columns resolved, but
\* no volume column anywhere: the empty table came back
C1_Witness ==
    /\ FetchReturned
    /\ feed.download = "ok" /\ feed.rows = "some" /\ feed.cells = "clean"
    /\ ~NoTimestampName(feed)
    /\ n_close \in ArrivingNames(feed)
    /\ \A n \in ArrivingNames(feed) : ~Contains(n_volume, n)
    /\ data = EmptyTable

\* a canonical table came back from a download whose close is only there
\* as "Adj Close"
C1_CanonicalReached ==
    /\ FetchReturned
    /\ N_Close \notin Names(feed.columns) /\ n_close \notin Names(feed.columns)
    /\ Canonical(data)

----------------------------------------------------------------------------
(* Bollinger bands: claim C11, checked under SpecBollinger *)

BandsReturned == pc = "returned"

\* the sign of base + k * sqrt(rad) - r, for rad >= 0
SignAgainst(band, r) ==
    LET d == RatSub(band.base, r)
        s1 == Sgn(d[1])
        s2 == IF band.rad[1] = 0 THEN 0 ELSE Sgn(band.k)
    IN  IF s1 = 0 THEN s2
        ELSE IF s2 = 0 \/ s1 = s2 THEN s1
        ELSE LET c == RatSub(RatMul(d, d), RatMul(<<band.k * band.k, 1>>, band.rad))
             IN  IF c[1] > 0 THEN s1 ELSE IF c[1] < 0 THEN s2 ELSE 0

\* the sample variance of rows i-w+1..i by its definition: the sum of the
\* squared distances from the mean, over w - 1
RECURSIVE SquaredDistances(_, _, _, _)
SquaredDistances(close, mean, lo, hi) ==
    IF lo > hi THEN <<0, 1>>
    ELSE RatAdd(RatMul(RatSub(<<close[hi], 1>>, mean), RatSub(<<close[hi], 1>>, mean)),
                SquaredDistances(close, mean, lo, hi - 1))

SampleVariance(close, w, i) ==
    RatDiv(SquaredDistances(close, Rat(SumOver(close, i - w + 1, i), w), i - w + 1, i),
           <<w - 1, 1>>)

AllPresent(i) ==
    bands.upper[i] # NaN /\ bands.middle[i] # NaN /\ bands.lower[i] # NaN

ConstantWindow(i) == \A j \in (i - window + 1)..i : closes[j] = closes[i]

\* C11: in every row where the three bands are present, upper >= middle >=
\* lower, upper - middle and middle - lower are both num_std times the
\* sample standard deviation of the window, and the three bands coincide
\* exactly when the closes of the window are all the same; the first
\* window-1 rows are missing, and from two rows per window on every later
\* row is present.
C11_BandsOrderedAndSymmetric ==
    BandsReturned =>
        \A i \in 1..Len(closes) :
            /\ i < window =>
                   bands.upper[i] = NaN /\ bands.middle[i] = NaN /\ bands.lower[i] = NaN
            /\ (i >= window /\ window >= 2) => AllPresent(i)
            /\ AllPresent(i) =>
                   /\ SignAgainst(bands.upper[i], bands.middle[i]) >= 0
                   /\ SignAgainst(bands.lower[i], bands.middle[i]) <= 0
                   /\ bands.upper[i].base = bands.middle[i]
                   /\ bands.lower[i].base = bands.middle[i]
                   /\ bands.upper[i].k = num_std /\ bands.lower[i].k = -num_std
                   /\ bands.upper[i].rad = SampleVariance(closes, window, i)
                   /\ bands.lower[i].rad = SampleVariance(closes, window, i)
                   /\ (SignAgainst(bands.upper[i], bands.middle[i]) = 0
                         /\ SignAgainst(bands.lower[i], bands.middle[i]) = 0)
                      <=> ConstantWindow(i)

\* a series with a missing first row, a row of three equal closes (bands
\* coincide) and a row whose window varies (bands strictly apart)
C11_Witness ==
    /\ BandsReturned /\ window = 3 /\ Len(closes) = 5
    /\ ~AllPresent(2)
    /\ AllPresent(3) /\ ConstantWindow(3)
    /\ SignAgainst(bands.upper[3], bands.middle[3]) = 0
    /\ AllPresent(5) /\ ~ConstantWindow(5)
    /\ SignAgainst(bands.upper[5], bands.middle[5]) > 0
    /\ SignAgainst(bands.lower[5], bands.middle[5]) < 0

----------------------------------------------------------------------------
(* Series normalizer on its own output: claim C12, checked under SpecFetch *)

Renormalized == FetchReturned /\ feed \in CanonicalFeeds

----------------------------------------------------------------------------
(* Timestamp resolution: claim C15, checked under SpecFetch *)

\* a download with rows and clean cells whose five price columns arrive
\* under their usual names, once each
PricesResolve(f) ==
    /\ f.download = "ok" /\ f.rows = "some" /\ f.cells = "clean"
    /\ {N_Open, N_High, N_Low, N_Close, N_Volume} \subseteq Names(f.columns)
    /\ n_close \notin Names(f.columns)

\* the columns as they stand when the timestamp is looked for
Arriving(f) ==
    lowercase_columns(<<[name |-> index_column_name(f, flatten(f)), src |-> 0]>>
                          \o flatten(f))

SrcOf(cols, name) == cols[SetMin({ i \in 1..Len(cols) : cols[i].name = name })].src

\* where the claim says the timestamp comes from: date, else datetime, else
\* the first column with a time word in its name, else the datetime index
ClaimedTimestampSrc(f) ==
    LET cols == Arriving(f)
        timed == { i \in 1..Len(cols) : has_time_word(cols[i].name) }
    IN  IF n_date \in Names(cols) THEN {SrcOf(cols, n_date)}
        ELSE IF n_datetime \in Names(cols) THEN {SrcOf(cols, n_datetime)}
        ELSE IF timed # {} THEN {cols[SetMin(timed)].src}
        ELSE IF f.index_type = "DatetimeIndex" THEN {0, -4}
        ELSE {}

\* C15: the timestamp is resolved from date, else datetime, else the first
\* column whose name contains a time word, else a datetime-typed index, and
\* resolution fails only when none applies; in particular a download whose
\* only timestamp is its datetime-typed index, no column name containing
\* date or time, yields a canonical series with that index as its date.
C15_TimestampResolutionOrder ==
    (FetchReturned /\ PricesResolve(feed) /\ feed \notin CanonicalFeeds) =>
        IF ClaimedTimestampSrc(feed) = {}
        THEN data = EmptyTable
        ELSE /\ Canonical(data)
             /\ Count(data.columns, n_date) = 1
             /\ SrcOf(data.columns, n_date) \in ClaimedTimestampSrc(feed)

----------------------------------------------------------------------------
(* Level detector: claims C14, C16, C19, checked under SpecLevels *)

\* the reference pass: the first level is kept, and a later level is kept
\* when it is more than 0.1% away from the last level kept so far
RECURSIVE reference_pass(_, _, _)
reference_pass(levels, i, kept) ==
    IF i > Len(levels) THEN <<>>
    ELSE IF RelDen * Abs(levels[i] - kept) > levels[i]
         THEN <<levels[i]>> \o reference_pass(levels, i + 1, levels[i])
         ELSE reference_pass(levels, i + 1, kept)

reference_dedup(levels) ==
    IF Len(levels) = 0 THEN <<>>
    ELSE <<levels[1]>> \o reference_pass(levels, 2, levels[1])

\* C14: on every sorted candidate list of up to five positive levels the
\* de-duplication returns what the reference pass returns, which compares
\* each level with the immediately preceding kept one.
C14_DedupEqualsReferencePass ==
    LevelsReturned =>
        /\ support_levels =
               reference_dedup(last_levels(support_candidates(closes, window, prominence2)))
        /\ resistance_levels =
               reference_dedup(last_levels(resistance_candidates(closes, window, prominence2)))

\* how many of the candidates at idx are strictly above v
Above(x, idx, v) == Cardinality({ j \in idx : x[j] > v })

\* every level is among the five largest candidates, and the lowest of
\* those five (of all, when there are fewer) is the first level
FiveHighest(x, idx, levels) ==
    /\ \A i \in 1..Len(levels) : Above(x, idx, levels[i]) < KeepLast
    /\ idx # {} =>
           /\ Len(levels) > 0
           /\ levels[1] = SetMin({ x[j] : j \in { k \in idx : Above(x, idx, x[k]) < KeepLast } })

IsLocalMaximum(x, p) ==
    /\ 1 < p /\ p < Len(x)
    /\ \E l \in 1..(p - 1) : x[l] < x[p] /\ \A k \in l..p : x[k] <= x[p]
    /\ \E r \in (p + 1)..Len(x) : x[r] < x[p] /\ \A k \in p..r : x[k] <= x[p]

StrictlyAscending(levels) == \A i \in 1..(Len(levels) - 1) : levels[i] < levels[i + 1]

\* C19: for positive closes each returned level set is strictly ascending,
\* every resistance level is the close at a local maximum and every support
\* level the close at a local minimum of the series, never a negated value.
C19_LevelsAscendingFromSeries ==
    LevelsReturned =>
        /\ StrictlyAscending(support_levels)
        /\ StrictlyAscending(resistance_levels)
        /\ \A i \in 1..Len(resistance_levels) :
               \E p \in 1..Len(closes) :
                   closes[p] = resistance_levels[i] /\ IsLocalMaximum(closes, p)
        /\ \A i \in 1..Len(support_levels) :
               /\ support_levels[i] > 0
               /\ \E p \in 1..Len(closes) :
                      closes[p] = support_levels[i] /\ IsLocalMaximum(Negated(closes), p)

\* several levels came back on both sides
C19_Witness ==
    /\ LevelsReturned
    /\ Len(support_levels) >= 3 /\ Len(resistance_levels) >= 3

----------------------------------------------------------------------------
(* Period translation: claim C18, checked under SpecPeriod *)

Downloading == pc = "yf.download"

----------------------------------------------------------------------------
(* Indicator settings and frame of the indicator bundle: claims C13, C17,  *)
(* checked under SpecApp                                                   *)

ArgsOf(table, name) ==
    table.columns[SetMin({ j \in 1..Len(table.columns) :
                              table.columns[j].name = name })].src.args

NewBundle == session'.analysis_data # session.analysis_data

\* C13: the bundle update_data computes uses the configured rsi_window,
\* macd_fast, macd_slow, macd_signal and bb_window, not the defaults 14, 12,
\* 26, 9 and 20.
C13_ConfiguredParametersUsed ==
    [][NewBundle =>
          LET t == tables'[session'.analysis_data.data]
          IN  /\ ArgsOf(t, n_rsi)[1] = config.rsi_window
              /\ ArgsOf(t, n_macd) = <<config.macd_fast, config.macd_slow, config.macd_signal>>
              /\ ArgsOf(t, n_bb_upper)[1] = config.bb_window]_vars

seven_columns ==
    <<n_rsi, n_macd, n_macd_signal, n_macd_histogram, n_bb_upper, n_bb_middle, n_bb_lower>>

\* C17: calculate_all_indicators changes the table it is given only by
\* appending rsi, macd, macd_signal, macd_histogram, bb_upper, bb_middle and
\* bb_lower, every other column and the row count staying as they were; the
\* caller's table, of which a copy is passed, is not changed; and the
\* signal builder and the chart functions change no table.
C17_OnlySevenColumnsAppended ==
    [][/\ Len(tables') >= Len(tables)
       /\ \A id \in 1..Len(tables) : tables'[id] = tables[id]
       /\ (session'.figures # session.figures
             \/ session'.signal_data # session.signal_data) => tables' = tables
       /\ NewBundle =>
              LET t == tables'[session'.analysis_data.data]
                  m == tables'[session'.market_data]
              IN  /\ m \in LoadedTables
                  /\ t.rows = m.rows
                  /\ Len(t.columns) = Len(m.columns) + Len(seven_columns)
                  /\ SubSeq(t.columns, 1, Len(m.columns)) = m.columns
                  /\ \A i \in 1..Len(seven_columns) :
                         t.columns[Len(m.columns) + i].name = seven_columns[i]]_vars

\* a bundle was computed, both charts were drawn and a signal was built from
\* it, and the market data still has its eight columns
C17_Witness ==
    /\ pc = "app"
    /\ session.analysis_data # NoAnalysis
    /\ session.figures # NoFigures
    /\ session.signal_data # NoSignal
    /\ session.signal_data.market_data = session.market_data
    /\ Len(tables[session.market_data].columns) = 8
    /\ Len(tables[session.analysis_data.data].columns) = 15

====
